---- MODULE Spec2Model ----
(***************************************************************************)
(* githd, src/model.ts: the subprocess text collector (runGitCommand), the *)
(* status-line parser (Resource), the log tokenizer (Model.getLogEntries)  *)
(* and the selection state holder (Model).                                 *)
(*                                                                         *)
(* Text is a sequence of one-character strings.  The two log separators    *)
(* are long unique strings; each is one token of the text.                 *)
(***************************************************************************)
EXTENDS Integers, Sequences, FiniteSets, TLC

VARIABLES
    sha,             \* Model._sha
    resourceStates,  \* Model._resourceGroup.resourceStates, the published list
    calls,           \* one record per call that reached runGitCommand
    overlapped,      \* history: an update was issued while another was pending
    cleared,         \* history: the step taken last was update('')
    info,            \* the status line given to new Resource(info)
    resource         \* the outcome of new Resource(info)

vars == <<sha, resourceStates, calls, overlapped, cleared, info, resource>>

-----------------------------------------------------------------------------
(* Bounds *)

MaxLineLen == 5       \* longest status line enumerated for new Resource()
MaxCalls == 2         \* calls issued on one Model
MaxStatusLines == 2   \* status lines in one 'show' output
MaxRecords == 2       \* records in one 'log' output
MaxFieldCount == 12   \* most fields in one 'log' record

-----------------------------------------------------------------------------
(* Text *)

Undefined == <<"undefined">>   \* the JavaScript value undefined

TAB == "\t"
LF == "\n"
CR == "\r"

\* String.prototype.split with a one-token separator: the pieces between
\* consecutive occurrences of the separator, empty pieces included.
SplitOn(s, sep) ==
    LET at == {i \in 1..Len(s) : s[i] = sep}
        n == Cardinality(at)
        nth(k) == IF k = 0 THEN 0
                  ELSE IF k = n + 1 THEN Len(s) + 1
                  ELSE CHOOSE p \in at : Cardinality({q \in at : q <= p}) = k
    IN [k \in 1..(n + 1) |-> SubSeq(s, nth(k - 1) + 1, nth(k) - 1)]

\* content.split(/\r?\n/g): a CR is part of the separator only right before LF.
SplitLines(s) ==
    LET parts == SplitOn(s, LF)
        strip(p) == IF Len(p) > 0 /\ p[Len(p)] = CR THEN SubSeq(p, 1, Len(p) - 1) ELSE p
    IN [i \in 1..Len(parts) |-> IF i < Len(parts) THEN strip(parts[i]) ELSE parts[i]]

\* Array.prototype.join with a separator text.
RECURSIVE JoinWith(_, _)
JoinWith(parts, sep) ==
    IF Len(parts) = 0 THEN <<>>
    ELSE IF Len(parts) = 1 THEN parts[1]
    ELSE parts[1] \o sep \o JoinWith(Tail(parts), sep)

\* toLocaleUpperCase / toUpperCase on one character.
ToUpper(c) ==
    CASE c = "m" -> "M"
      [] c = "a" -> "A"
      [] c = "d" -> "D"
      [] c = "r" -> "R"
      [] c = "c" -> "C"
      [] c = "x" -> "X"
      [] c = "b" -> "B"
      [] OTHER -> c

\* Sequences over S of length 0..n.
SeqsUpTo(S, n) == UNION {[1..k -> S] : k \in 0..n}

-----------------------------------------------------------------------------
(* Resource *)

rootPath == <<"/", "w">>   \* workspace.rootPath

\* createUri: path.join(workspace.rootPath, relativePath) rejects a
\* non-string argument with a TypeError.
createUri(relativePath) ==
    IF relativePath = Undefined THEN [threw |-> "TypeError", uri |-> Undefined]
    ELSE IF relativePath = <<>> THEN [threw |-> "none", uri |-> rootPath]
    ELSE [threw |-> "none", uri |-> rootPath \o <<"/">> \o relativePath]

\* contents[2] of the source (third field), undefined when absent.
RenamedFile(contents) == IF Len(contents) >= 3 THEN contents[3] ELSE Undefined

\* the switch of parseInfoLine on contents[0][0].toLocaleUpperCase()
FileOfAlt(code, contents) ==
    CASE code \in {"M", "A", "D"} -> contents[Len(contents)]
      [] code \in {"R", "C"} -> RenamedFile(contents)
      [] OTHER -> Undefined
FileOf(code, contents) ==
    CASE code \in {"M", "A", "D"} -> contents[2]
      [] code \in {"R", "C"} -> RenamedFile(contents)
      [] OTHER -> Undefined

\* Resource.parseInfoLine, as run by the constructor: the fields of the new
\* object and the exception that left the constructor, if any.
parseInfoLine(line) ==
    LET contents == SplitOn(line, TAB)
        blank == [threw |-> "none", file |-> Undefined, status |-> Undefined,
                  resourceUri |-> Undefined]
    IN  IF Len(contents) < 2 THEN blank
        ELSE IF Len(contents[1]) = 0 THEN [blank EXCEPT !.threw = "TypeError"]
        ELSE LET code == ToUpper(contents[1][1])
             IN IF code \notin {"M", "A", "D", "R", "C"}
                THEN [blank EXCEPT !.threw = "Error"]
                ELSE LET file == FileOf(code, contents)
                         u == createUri(file)
                     IN IF u.threw # "none"
                        THEN [blank EXCEPT !.threw = u.threw, !.file = file]
                        ELSE [threw |-> "none", file |-> file, status |-> contents[1],
                              resourceUri |-> u.uri]

\* the key of the switch in Resource.getIconPath: this._status[0].toUpperCase()
StatusCode(r) == ToUpper(r.status[1])

NoResource == [threw |-> "pending", file |-> Undefined, status |-> Undefined,
               resourceUri |-> Undefined]

LineChars == {TAB, "M", "a", "D", "r", "C", "x"}
InfoLines == SeqsUpTo(LineChars, MaxLineLen)

-----------------------------------------------------------------------------
(* Model._updateResources: the endAction given to runGitCommand *)

Res(r) == [file |-> r.file, status |-> r.status, resourceUri |-> r.resourceUri]

\* The forEach over content.split(/\r?\n/g): _sha is taken from the line of
\* index 0, every non-empty line of index > 1 is given to new Resource();
\* an exception of the constructor ends the loop and leaves the callback.
ShaLine == 1
FirstStatusLine == 3

updateResourcesEnd(content) ==
    LET lines == SplitLines(content)
        RECURSIVE each(_, _)
        each(i, resources) ==
            IF i > Len(lines) THEN [threw |-> "none", resources |-> resources]
            ELSE IF i >= FirstStatusLine /\ lines[i] # <<>>
                 THEN LET r == parseInfoLine(lines[i])
                      IN IF r.threw # "none"
                         THEN [threw |-> r.threw, resources |-> resources]
                         ELSE each(i + 1, Append(resources, Res(r)))
                 ELSE each(i + 1, resources)
        done == each(1, <<>>)
    IN [sha |-> IF Len(lines) >= ShaLine THEN lines[ShaLine] ELSE Undefined,
        threw |-> done.threw, resources |-> done.resources]

-----------------------------------------------------------------------------
(* Model.getLogEntries: the endAction given to runGitCommand *)

entrySeparator == "471a2a19-885e-47f8-bff3-db43a3cdfaed"
itemSeparator == "e69fde18-a303-4529-963d-f5b63b7b1664"

FieldsPerEntry == 6

NoEntry == [subject |-> Undefined, hash |-> Undefined, ref |-> Undefined,
            author |-> Undefined, email |-> Undefined, date |-> Undefined]

\* the switch on index % 6 of the inner forEach: the variable assigned
SetFieldAlt(e, k, value) ==
    CASE k = 0 -> [e EXCEPT !.subject = value]
      [] k = 1 -> [e EXCEPT !.ref = value]
      [] k = 2 -> [e EXCEPT !.hash = value]
      [] k = 3 -> [e EXCEPT !.author = value]
      [] k = 4 -> [e EXCEPT !.email = value]
      [] OTHER -> [e EXCEPT !.date = value]
SetField(e, k, value) ==
    CASE k = 0 -> [e EXCEPT !.subject = value]
      [] k = 1 -> [e EXCEPT !.hash = value]
      [] k = 2 -> [e EXCEPT !.ref = value]
      [] k = 3 -> [e EXCEPT !.author = value]
      [] k = 4 -> [e EXCEPT !.email = value]
      [] OTHER -> [e EXCEPT !.date = value]

\* entry.split(itemSeparator).forEach: the entries one fragment appends
entryItems(entry, entries) ==
    LET items == SplitOn(entry, itemSeparator)
        RECURSIVE each(_, _, _)
        each(i, e, acc) ==
            IF i > Len(items) THEN acc
            ELSE IF i = 1 THEN each(i + 1, e, acc)
            ELSE LET k == (i - 2) % FieldsPerEntry
                     e2 == SetField(e, k, items[i])
                 IN IF k = FieldsPerEntry - 1
                    THEN each(i + 1, e2, Append(acc, e2))
                    ELSE each(i + 1, e2, acc)
    IN each(1, NoEntry, entries)

\* content.split(entrySeparator).forEach: empty fragments are skipped
logEntriesEnd(content) ==
    LET frags == SplitOn(content, entrySeparator)
        RECURSIVE each(_, _)
        each(i, entries) ==
            IF i > Len(frags) THEN entries
            ELSE IF frags[i] = <<>> THEN each(i + 1, entries)
            ELSE each(i + 1, entryItems(frags[i], entries))
    IN each(1, <<>>)

-----------------------------------------------------------------------------
(* Model.getCurrentBranch and Model.getCommitsCount *)

WhiteSpace == {" ", TAB, LF, CR}

\* String.prototype.trim
RECURSIVE trim(_)
trim(s) ==
    IF Len(s) = 0 THEN s
    ELSE IF s[1] \in WhiteSpace THEN trim(Tail(s))
    ELSE IF s[Len(s)] \in WhiteSpace THEN trim(SubSeq(s, 1, Len(s) - 1))
    ELSE s

Digits == <<"0", "1", "2", "3", "4", "5", "6", "7", "8", "9">>
IsDigit(c) == \E d \in 1..10 : Digits[d] = c
DigitVal(c) == (CHOOSE d \in 1..10 : Digits[d] = c) - 1

CountUndefined == [kind |-> "undefined", val |-> 0]

\* parseInt(content): leading white space is skipped, the longest run of
\* digits is the value, NaN when there is none.
parseInt(s) ==
    LET RECURSIVE skip(_)
        skip(i) == IF i <= Len(s) /\ s[i] \in WhiteSpace THEN skip(i + 1) ELSE i
        RECURSIVE num(_, _)
        num(i, v) == IF i <= Len(s) /\ IsDigit(s[i]) THEN num(i + 1, 10 * v + DigitVal(s[i])) ELSE v
        b == skip(1)
    IN IF b <= Len(s) /\ IsDigit(s[b]) THEN [kind |-> "number", val |-> num(b, 0)]
       ELSE [kind |-> "NaN", val |-> 0]

-----------------------------------------------------------------------------
(* runGitCommand and the four operations of Model that use it *)

\* what spawn('git', ...) does: the process runs ("ok"), spawn throws
\* ("throw"), or the process cannot be started and the child object reports
\* 'error' later ("error").
SpawnOutcomes == {"ok", "throw", "error"}

\* the variable the endAction closure of each operation writes
InitAcc(op) ==
    CASE op = "getCommitsCount" -> CountUndefined
      [] OTHER -> <<>>

NewCall(op, out, outcome) ==
    [op |-> op,
     out |-> IF outcome = "ok" THEN out ELSE <<>>,
     started |-> (outcome = "ok"),
     content |-> <<>>,
     pc |-> IF outcome = "throw" THEN "failed" ELSE "running",
     fault |-> IF outcome = "ok" THEN "none" ELSE "spawn",
     ended |-> FALSE,
     threw |-> "none",
     acc |-> InitAcc(op),
     promise |-> IF outcome = "throw" THEN "rejected" ELSE "pending",
     ret |-> InitAcc(op)]

Pending(op) == {i \in 1..Len(calls) : calls[i].op = op /\ calls[i].promise = "pending"}

\* async function runGitCommand, up to the return of the promise
runGitCommand(op, out, outcome) ==
    /\ Len(calls) < MaxCalls
    /\ outcome \in SpawnOutcomes
    /\ calls' = Append(calls, NewCall(op, out, outcome))
    /\ cleared' = FALSE

\* Model.update(sha)
updateAlt(shaArg, out, outcome) ==
    /\ IF shaArg = <<>>
       THEN /\ resourceStates' = resourceStates
            /\ cleared' = TRUE
            /\ UNCHANGED <<calls, overlapped>>
       ELSE /\ runGitCommand("update", out, outcome)
            /\ overlapped' = (overlapped \/ Pending("update") # {})
            /\ UNCHANGED resourceStates
    /\ UNCHANGED <<sha, info, resource>>
update(shaArg, out, outcome) ==
    /\ IF shaArg = <<>>
       THEN /\ resourceStates' = <<>>
            /\ cleared' = TRUE
            /\ UNCHANGED <<calls, overlapped>>
       ELSE /\ runGitCommand("update", out, outcome)
            /\ overlapped' = (overlapped \/ Pending("update") # {})
            /\ UNCHANGED resourceStates
    /\ UNCHANGED <<sha, info, resource>>

\* Model.getLogEntries(start, count)
getLogEntries(start, count, out, outcome) ==
    /\ runGitCommand("getLogEntries", out, outcome)
    /\ UNCHANGED <<sha, resourceStates, overlapped, info, resource>>

\* Model.getCurrentBranch()
getCurrentBranch(out, outcome) ==
    /\ runGitCommand("getCurrentBranch", out, outcome)
    /\ UNCHANGED <<sha, resourceStates, overlapped, info, resource>>

\* Model.getCommitsCount()
getCommitsCount(out, outcome) ==
    /\ runGitCommand("getCommitsCount", out, outcome)
    /\ UNCHANGED <<sha, resourceStates, overlapped, info, resource>>

\* out.on('data', data => content += data): the next chunk, all that is
\* left or, at the start, its first half
ChunkSizes(c) ==
    LET left == Len(c.out) - Len(c.content)
    IN {left} \cup (IF c.content = <<>> /\ left >= 2 THEN {left \div 2} ELSE {})

OnData(i) ==
    /\ calls[i].pc = "running" /\ calls[i].started
    /\ Len(calls[i].content) < Len(calls[i].out)
    /\ \E n \in ChunkSizes(calls[i]) :
          calls' = [calls EXCEPT ![i].content =
                       @ \o SubSeq(calls[i].out, Len(@) + 1, Len(@) + n)]
    /\ cleared' = FALSE
    /\ UNCHANGED <<sha, resourceStates, overlapped, info, resource>>

\* out.on('end', () => endAction(content)).  An exception of endAction
\* leaves the listener; it is not the promise's rejection.
OnEnd(i) ==
    LET c == calls[i]
        u == updateResourcesEnd(c.content)
    IN  /\ c.pc = "running" /\ c.started
        /\ c.content = c.out
        /\ CASE c.op = "update" ->
                  /\ calls' = [calls EXCEPT ![i].pc = "ended", ![i].ended = TRUE,
                                            ![i].threw = u.threw, ![i].acc = u.resources]
                  /\ sha' = u.sha
             [] c.op = "getLogEntries" ->
                  /\ calls' = [calls EXCEPT ![i].pc = "ended", ![i].ended = TRUE,
                                            ![i].acc = logEntriesEnd(c.content)]
                  /\ UNCHANGED sha
             [] c.op = "getCurrentBranch" ->
                  /\ calls' = [calls EXCEPT ![i].pc = "ended", ![i].ended = TRUE,
                                            ![i].acc = c.content]
                  /\ UNCHANGED sha
             [] OTHER ->
                  /\ calls' = [calls EXCEPT ![i].pc = "ended", ![i].ended = TRUE,
                                            ![i].acc = parseInt(c.content)]
                  /\ UNCHANGED sha
        /\ cleared' = FALSE
        /\ UNCHANGED <<resourceStates, overlapped, info, resource>>

\* out.on('error', err => reject(err))
OnError(i) ==
    /\ calls[i].pc = "running" /\ calls[i].started
    /\ calls' = [calls EXCEPT ![i].pc = "failed", ![i].fault = "stream",
                              ![i].promise = "rejected"]
    /\ cleared' = FALSE
    /\ UNCHANGED <<sha, resourceStates, overlapped, info, resource>>

\* The child object emits 'error' (the process could not be started).
\* runGitCommand listens to the stdout stream only: the promise is neither
\* rejected nor resolved, and the stream of a process that never ran
\* delivers nothing.
OnChildError(i) ==
    /\ calls[i].pc = "running" /\ ~calls[i].started
    /\ calls' = [calls EXCEPT ![i].pc = "hung"]
    /\ cleared' = FALSE
    /\ UNCHANGED <<sha, resourceStates, overlapped, info, resource>>

\* out.on('close', () => resolve())
OnClose(i) ==
    /\ calls[i].pc = "ended"
    /\ calls' = [calls EXCEPT ![i].pc = "closed"]
    /\ cleared' = FALSE
    /\ UNCHANGED <<sha, resourceStates, overlapped, info, resource>>

\* the operation's code after `await runGitCommand(...)`
ResumeAlt(i) ==
    LET c == calls[i]
    IN  /\ c.pc = "closed"
        /\ calls' = [calls EXCEPT ![i].pc = "done", ![i].promise = "resolved",
                                  ![i].ret = IF c.op = "getCurrentBranch" THEN trim(c.acc)
                                             ELSE IF c.op = "update" THEN <<>> ELSE c.acc]
        /\ resourceStates' = IF c.op = "update" /\ c.acc # <<>> THEN c.acc ELSE resourceStates
        /\ cleared' = FALSE
        /\ UNCHANGED <<sha, overlapped, info, resource>>
Resume(i) ==
    LET c == calls[i]
    IN  /\ c.pc = "closed"
        /\ calls' = [calls EXCEPT ![i].pc = "done", ![i].promise = "resolved",
                                  ![i].ret = IF c.op = "getCurrentBranch" THEN trim(c.acc)
                                             ELSE IF c.op = "update" THEN <<>> ELSE c.acc]
        /\ resourceStates' = IF c.op = "update" THEN c.acc ELSE resourceStates
        /\ cleared' = FALSE
        /\ UNCHANGED <<sha, overlapped, info, resource>>

-----------------------------------------------------------------------------
(* What git writes *)

Hashes == {<<"1">>, <<"2">>}
EOLs == {<<LF>>, <<CR, LF>>}

\* lines that may follow the hash line of `git show --format=%h --name-status`
ShowLines == {<<>>, <<"M", TAB, "a">>, <<"r", "9", TAB, "a", TAB, "b">>, <<"d", TAB, "b">>,
              <<"x", TAB, "a">>, <<"a", "b">>, <<"C", TAB, "a">>}

ShowOutputs ==
    {<<>>} \cup
    {JoinWith(<<h>> \o ls \o <<<<>>>>, eol) :
        h \in Hashes, eol \in EOLs, ls \in SeqsUpTo(ShowLines, MaxStatusLines + 1)}

Shas == {<<>>, <<"H">>}

\* the 'show' outputs of the specification with overlapping calls
SmallShowLines == {<<"M", TAB, "a">>, <<"x", TAB, "a">>}

SmallShowOutputs ==
    {<<>>} \cup
    {JoinWith(<<h, <<>>>> \o ls \o <<<<>>>>, <<LF>>) :
        h \in Hashes, ls \in {<<>>} \cup {<<l>> : l \in SmallShowLines}}

\* One record of `git log --format=<item>%s<item>%h...<entry>`: a leading
\* fragment, n fields each after an item separator, the entry separator.
\* Field i of record j reads "j.i"; the ref of an odd record is empty.
LogField(j, i) ==
    IF i = 3 /\ j % 2 = 1 THEN <<>>
    ELSE <<Digits[(j % 10) + 1], ".", Digits[(i % 10) + 1]>>

RECURSIVE LogFields(_, _, _)
LogFields(j, i, n) ==
    IF i > n THEN <<>> ELSE <<itemSeparator>> \o LogField(j, i) \o LogFields(j, i + 1, n)

LogRecord(j, p) == p.lead \o LogFields(j, 1, p.n) \o <<entrySeparator>>

RECURSIVE LogRecords(_, _)
LogRecords(ps, j) ==
    IF j > Len(ps) THEN <<>> ELSE LogRecord(j, ps[j]) \o LogRecords(ps, j + 1)

LogText(ps, tail) == LogRecords(ps, 1) \o tail

Leads == {<<>>, <<LF>>}
RecordShapes == [lead : Leads, n : 0..MaxFieldCount]

\* what `git log --max-count=count` may write
LogOutputs(count) ==
    {LogText(ps, tail) : ps \in SeqsUpTo(RecordShapes, count), tail \in Leads}

SmallLogOutputs == {LogText(<<[lead |-> <<>>, n |-> FieldsPerEntry]>>, <<LF>>)}
BranchOutputs == {<<"m", LF>>}
CountOutputs == {<<"4", "2", LF>>}



NewResource ==
    /\ resource = NoResource
    /\ resource' = parseInfoLine(info)
    /\ cleared' = FALSE
    /\ UNCHANGED <<sha, resourceStates, calls, overlapped, info>>

InitModel ==
    /\ sha = Undefined
    /\ resourceStates = <<>>
    /\ calls = <<>>
    /\ overlapped = FALSE
    /\ cleared = FALSE

InitResource ==
    /\ InitModel
    /\ info \in InfoLines
    /\ resource = NoResource

NextResource == NewResource

SpecResource == InitResource /\ [][NextResource]_vars

-----------------------------------------------------------------------------
(* One update at a time, over every 'show' output within the bounds *)

InitShow ==
    /\ InitModel
    /\ info = <<>>
    /\ resource = NoResource

NextShow ==
    \/ /\ calls = <<>>
       /\ \E s \in Shas, out \in ShowOutputs, oc \in SpawnOutcomes : update(s, out, oc)
    \/ \E i \in 1..Len(calls) : OnData(i)
    \/ \E i \in 1..Len(calls) : OnEnd(i)
    \/ \E i \in 1..Len(calls) : OnError(i)
    \/ \E i \in 1..Len(calls) : OnChildError(i)
    \/ \E i \in 1..Len(calls) : OnClose(i)
    \/ \E i \in 1..Len(calls) : Resume(i)

SpecShow == InitShow /\ [][NextShow]_vars

-----------------------------------------------------------------------------
(* One getLogEntries at a time, over every 'log' output within the bounds *)

NextLog ==
    \/ /\ calls = <<>>
       /\ \E count \in 0..MaxRecords : \E out \in LogOutputs(count), oc \in SpawnOutcomes :
             getLogEntries(0, count, out, oc)
    \/ \E i \in 1..Len(calls) : OnData(i)
    \/ \E i \in 1..Len(calls) : OnEnd(i)
    \/ \E i \in 1..Len(calls) : OnError(i)
    \/ \E i \in 1..Len(calls) : OnChildError(i)
    \/ \E i \in 1..Len(calls) : OnClose(i)
    \/ \E i \in 1..Len(calls) : Resume(i)

SpecLog == InitShow /\ [][NextLog]_vars

-----------------------------------------------------------------------------------------------------------------------------------------------------
(* The four operations that run git, each awaited before the next *)

NextOps ==
    \/ /\ \A i \in 1..Len(calls) : calls[i].promise # "pending"
       /\ \/ \E s \in Shas, out \in SmallShowOutputs, oc \in SpawnOutcomes : update(s, out, oc)
          \/ \E out \in SmallLogOutputs, oc \in SpawnOutcomes : getLogEntries(0, 1, out, oc)
          \/ \E out \in BranchOutputs, oc \in SpawnOutcomes : getCurrentBranch(out, oc)
          \/ \E out \in CountOutputs, oc \in SpawnOutcomes : getCommitsCount(out, oc)
    \/ \E i \in 1..Len(calls) : OnData(i)
    \/ \E i \in 1..Len(calls) : OnEnd(i)
    \/ \E i \in 1..Len(calls) : OnError(i)
    \/ \E i \in 1..Len(calls) : OnChildError(i)
    \/ \E i \in 1..Len(calls) : OnClose(i)
    \/ \E i \in 1..Len(calls) : Resume(i)

SpecOps == InitShow /\ [][NextOps]_vars

-----------------------------------------------------------------------------
(* The Model with update calls that are not awaited *)

Init == InitShow

Next ==
    \/ \E s \in Shas, out \in SmallShowOutputs, oc \in SpawnOutcomes : update(s, out, oc)
    \/ \E i \in 1..Len(calls) : OnData(i)
    \/ \E i \in 1..Len(calls) : OnEnd(i)
    \/ \E i \in 1..Len(calls) : OnError(i)
    \/ \E i \in 1..Len(calls) : OnChildError(i)
    \/ \E i \in 1..Len(calls) : OnClose(i)
    \/ \E i \in 1..Len(calls) : Resume(i)

Spec == Init /\ [][Next]_vars

-----------------------------------------------------------------------------
(* Properties *)

Codes == {"M", "A", "D", "R", "C"}

FirstLine(text) == SplitLines(text)[1]

Fields(line) == SplitOn(line, TAB)

\* the line has a first field that starts with a recognized status code
Recognized(line) ==
    /\ Len(Fields(line)) >= 2
    /\ Len(Fields(line)[1]) > 0
    /\ ToUpper(Fields(line)[1][1]) \in Codes

LeadingCode(line) == ToUpper(Fields(line)[1][1])

Constructed == resource # NoResource

\* C1: Model.update('') leaves the published file list empty when it
\* completes and starts no subprocess, whatever the state it is called in.
C1_EmptyShaClears ==
    [][cleared' => (resourceStates' = <<>> /\ calls' = calls /\ sha' = sha)]_vars

\* update('') was called after a non-empty list had been published and while
\* another update was still pending.
C1_Witness ==
    /\ cleared
    /\ resourceStates = <<>>
    /\ \E i \in 1..Len(calls) : calls[i].pc = "done" /\ calls[i].acc # <<>>
    /\ \E i \in 1..Len(calls) : calls[i].pc \in {"running", "ended", "closed"}

\* some status line of the output (non-empty, third line or later) has a
\* first field that starts with a character outside M, A, D, R, C
HasUnrecognizedCode(out) ==
    \E k \in 3..Len(SplitLines(out)) :
        LET f == Fields(SplitLines(out)[k])
        IN Len(f) >= 2 /\ Len(f[1]) > 0 /\ ToUpper(f[1][1]) \notin Codes

\* C2: when the 'show' output has a status line whose code is outside
\* {M,A,D,R,C}, the promise of update(sha) rejects instead of resolving.
C2_ParseErrorRejects ==
    \A i \in 1..Len(calls) :
        (calls[i].op = "update" /\ calls[i].ended /\ HasUnrecognizedCode(calls[i].out))
            => calls[i].promise # "resolved"

\* C3: when the process cannot be started or its output stream errors, the
\* promise of the operation rejects; it is never left unsettled or resolved.
C3_SubprocessErrorRejects ==
    \A i \in 1..Len(calls) :
        (calls[i].fault # "none" /\ calls[i].pc \in {"failed", "hung", "done"})
            => calls[i].promise = "rejected"

\* C4 as stated: with at least two fields and a recognized code, the file is
\* the last field for R and C and the second field otherwise, and the status
\* is the leading character of the first field, case-insensitively.
C4_LastFieldOfRename ==
    (Constructed /\ Recognized(info)) =>
        /\ resource.threw = "none"
        /\ resource.file = IF LeadingCode(info) \in {"R", "C"}
                           THEN Fields(info)[Len(Fields(info))]
                           ELSE Fields(info)[2]
        /\ StatusCode(resource) = LeadingCode(info)

\* C4 as amended: for R and C with at least three fields the file is the
\* third field; for M, A and D it is the second field; the status is the
\* leading character of the first field, case-insensitively.
C4_ThirdFieldOfRename ==
    (Constructed /\ Recognized(info)
        /\ (LeadingCode(info) \in {"R", "C"} => Len(Fields(info)) >= 3)) =>
        /\ resource.threw = "none"
        /\ resource.file = IF LeadingCode(info) \in {"R", "C"}
                           THEN Fields(info)[3]
                           ELSE Fields(info)[2]
        /\ resource.status = Fields(info)[1]
        /\ StatusCode(resource) = LeadingCode(info)

\* a Resource was built from a rename line of four fields whose third and
\* last fields differ, and from a lower-case code
C4_Witness ==
    /\ Constructed /\ Recognized(info)
    /\ info[1] = "r"
    /\ Len(Fields(info)) = 4
    /\ Fields(info)[3] # Fields(info)[4]
    /\ resource.file = Fields(info)[3]
    /\ StatusCode(resource) = "R"

\* C5: a status line whose leading code is not one of M, A, D, R, C makes
\* the construction of a Resource fail, whatever its number of fields.
C5_UnrecognizedCodeFails ==
    (Constructed /\ Len(info) > 0 /\ ToUpper(info[1]) \notin Codes)
        => resource.threw # "none"

\* C6: no published Resource comes from a line of fewer than two fields:
\* every published Resource has a file path and a status.
C6_PublishedResourcesDefined ==
    \A k \in 1..Len(resourceStates) :
        resourceStates[k].file # Undefined /\ resourceStates[k].status # Undefined

\* the entries of a log output made of complete records and empty fragments
EntryOf(j) ==
    [subject |-> LogField(j, 1), hash |-> LogField(j, 2), ref |-> LogField(j, 3),
     author |-> LogField(j, 4), email |-> LogField(j, 5), date |-> LogField(j, 6)]

RECURSIVE EntriesOf(_, _)
EntriesOf(ps, j) ==
    IF j > Len(ps) THEN <<>>
    ELSE IF ps[j].n = FieldsPerEntry THEN <<EntryOf(j)>> \o EntriesOf(ps, j + 1)
    ELSE EntriesOf(ps, j + 1)

WellFormedShapes ==
    {[lead |-> l, n |-> FieldsPerEntry] : l \in Leads} \cup {[lead |-> <<>>, n |-> 0]}

WellFormedLogs ==
    {[text |-> LogText(ps, tail), entries |-> EntriesOf(ps, 1)] :
        ps \in SeqsUpTo(WellFormedShapes, MaxRecords), tail \in Leads}

\* C7: for a log output of exactly K complete six-field records,
\* getLogEntries returns K entries, the i-th with the six fields of the i-th
\* record, in order; empty fragments between or after records add nothing.
C7_LogEntriesInOrder ==
    \A i \in 1..Len(calls) :
        (calls[i].op = "getLogEntries" /\ calls[i].promise = "resolved") =>
            \A w \in WellFormedLogs :
                calls[i].out = w.text => calls[i].ret = w.entries

\* getLogEntries returned for an output of two complete records
C7_Witness ==
    \E i \in 1..Len(calls) :
        /\ calls[i].op = "getLogEntries" /\ calls[i].promise = "resolved"
        /\ \E w \in WellFormedLogs : calls[i].out = w.text /\ Len(w.entries) = 2
        /\ Len(calls[i].ret) = 2
        /\ calls[i].ret[1].subject = LogField(1, 1)
        /\ calls[i].ret[2].date = LogField(2, 6)

\* some record of the output (a fragment before an entry separator) has
\* fields, and not six of them
HasMalformedRecord(out) ==
    LET frags == SplitOn(out, entrySeparator)
    IN \E k \in 1..(Len(frags) - 1) :
          LET nf == Len(SplitOn(frags[k], itemSeparator)) - 1
          IN nf >= 1 /\ nf # FieldsPerEntry

\* C8: a log record whose number of fields is not six makes getLogEntries
\* fail; it does not resolve with the record dropped, cut or doubled.
C8_MalformedRecordFails ==
    \A i \in 1..Len(calls) :
        (calls[i].op = "getLogEntries" /\ calls[i].ended /\ HasMalformedRecord(calls[i].out))
            => calls[i].promise # "resolved"

\* one Resource per non-empty line from the third line on, in output order
ExpectedResources(out) ==
    LET lines == SplitLines(out)
        nonEmpty(l) == l # <<>>
        status == SelectSeq(SubSeq(lines, FirstStatusLine, Len(lines)), nonEmpty)
    IN [k \in 1..Len(status) |-> Res(parseInfoLine(status[k]))]

\* C9: when update(sha) with a non-empty sha completes successfully,
\* Model.sha is the first line of the 'show' output and the published list
\* holds one Resource per non-empty line from the third line on, in order.
C9_PublishedListMatchesOutput ==
    \A i \in 1..Len(calls) :
        (calls[i].op = "update" /\ calls[i].promise = "resolved") =>
            /\ sha = FirstLine(calls[i].out)
            /\ resourceStates = ExpectedResources(calls[i].out)

\* the hash and the list come from the same 'show' output
Consistent ==
    \E i \in 1..Len(calls) :
        /\ calls[i].op = "update" /\ calls[i].ended
        /\ sha = FirstLine(calls[i].content)
        /\ resourceStates = calls[i].acc

\* C10 as stated: for any interleaving of update calls, once every call has
\* completed, the published list is the one parsed from the output whose
\* first line is Model.sha.
C10_ConsistentWhenOverlapping ==
    (/\ Len(calls) >= 2
     /\ ~cleared
     /\ \A i \in 1..Len(calls) :
           calls[i].pc = "done" /\ calls[i].threw = "none" /\ calls[i].fault = "none")
        => Consistent

\* C10 as amended: when no update is issued while another is pending, an
\* update whose 'show' output was received completes with Model.sha equal to
\* the first line of that output and the published list parsed from it.
C10_ConsistentWhenAwaited ==
    [][\A i \in 1..Len(calls) :
          (/\ calls[i].op = "update" /\ calls[i].ended
           /\ calls[i].pc = "closed" /\ calls'[i].pc = "done"
           /\ ~overlapped)
             => /\ sha' = FirstLine(calls[i].content)
                /\ resourceStates' = updateResourcesEnd(calls[i].content).resources]_vars

\* two updates, the second issued after the first completed, each with its
\* own output; the second one has just published
C10_Witness ==
    /\ Len(calls) >= 2 /\ ~overlapped /\ ~cleared
    /\ calls[1].pc = "done" /\ calls[2].pc = "done"
    /\ calls[1].acc # <<>> /\ calls[2].acc = <<>>
    /\ FirstLine(calls[1].content) # FirstLine(calls[2].content)
    /\ sha = FirstLine(calls[2].content)
    /\ resourceStates = <<>>

====
